---- MODULE Spec2Model ----
(***************************************************************************)
(* Model of the lexicon-constrained beam-search decoder of                 *)
(* src/libraries/decoder/LexiconDecoder.cpp.                               *)
(*                                                                         *)
(* Scores are integers (fixed-point log-scores in units of ln 2); the      *)
(* value kNegativeInfinity is the -inf sentinel and absorbs addition.      *)
(* A parent pointer is the pair (frame, slot) of the state it points to.   *)
(* A frame of the hypothesis buffer is a sequence of state records, the    *)
(* buffer a sequence of frames (frame f is hyp[f + 1]).                    *)
(***************************************************************************)
EXTENDS Integers, Sequences, FiniteSets, TLC

VARIABLES
  hyp,                 \* hyp_ : frame index -> vector of states
  nDecodedFrames,      \* nDecodedFrames_
  nPrunedFrames,       \* nPrunedFrames_
  candidatesBestScore, \* candidatesBestScore_
  opt,                 \* opt_ : the decoder options
  isLmToken,           \* isLmToken_
  refHyp,              \* hyp_ of a second decoder fed the same calls, prune excepted
  prunedBase,          \* total score subtracted by the prune calls so far
  lastOp               \* the call that produced this state

vars == <<hyp, nDecodedFrames, nPrunedFrames, candidatesBestScore, opt,
          isLmToken, refHyp, prunedBase, lastOp>>

(***************************************************************************)
(* Bounds of the model.                                                    *)
(***************************************************************************)
MaxFrames == 3
MaxLookBack == 1
MaxT == 2

(***************************************************************************)
(* Scoring primitives.                                                     *)
(***************************************************************************)
kNegativeInfinity == -1000

Plus(a, b) ==
  IF a = kNegativeInfinity \/ b = kNegativeInfinity
  THEN kNegativeInfinity ELSE a + b

Minus(a, b) == IF a = kNegativeInfinity THEN kNegativeInfinity ELSE a - b

Max(a, b) == IF a >= b THEN a ELSE b

Min(a, b) == IF a <= b THEN a ELSE b

\* log1p(exp(-d)) in units of ln 2, rounded to the nearest integer:
\* d = 0 gives 1, d = 1 gives 0.585, d >= 2 gives at most 0.32.
Log1pExp(d) == IF d <= 1 THEN 1 ELSE 0

LogAdd(a, b) ==
  IF a = kNegativeInfinity THEN b
  ELSE IF b = kNegativeInfinity THEN a
  ELSE Max(a, b) + Log1pExp(Max(a, b) - Min(a, b))

\* isValidCandidate(bestScore, score, beamThreshold): the verdict ...
IsValidCandidate(best, score, thr) ==
  score >= Minus(best, thr) /\ score > kNegativeInfinity

\* ... and the running best it leaves in bestScore
UpdatedBestScore(best, score) == Max(best, score)

(***************************************************************************)
(* Per-instance parameters and collaborators.                              *)
(***************************************************************************)
N == 3
sil == 0
blank == 1
unk == 2
NoWord == -1
Tokens == 0 .. (N - 1)

\* The lexicon trie: root -a-> 1 -sil-> 2 {w0},  root -sil-> 3 {w1}.
Root == 0
TrieChildren(lex) ==
  CASE lex = 0 -> {<<0, 3>>, <<2, 1>>}
    [] lex = 1 -> {<<0, 2>>}
    [] OTHER -> {}

HasChild(lex, n) == \E c \in TrieChildren(lex) : c[1] = n
Child(lex, n) == (CHOOSE c \in TrieChildren(lex) : c[1] = n)[2]
Labels(lex) ==
  CASE lex = 2 -> <<0>>
    [] lex = 3 -> <<1>>
    [] OTHER -> <<>>
TrieMaxScore(lex) ==
  CASE lex = 1 -> -1
    [] lex = 2 -> -1
    [] OTHER -> 0

\* The language model: the state is the last index scored (0 at start).
LmStart == 0
LmScore(s, i) == [state |-> i + 1, score |-> IF i = 1 THEN 0 ELSE 0 - 1]
LmFinish(s) == [state |-> s, score |-> IF s = 0 THEN 0 - 1 ELSE 0]

\* transitions_[n * N + prev]: the self-loop is favoured
Transitions(n, prev) == IF n = prev THEN 1 ELSE 0

(***************************************************************************)
(* Hypothesis states and the buffer.                                       *)
(***************************************************************************)
NullParent == [frame |-> 0 - 1, slot |-> 0]

ParentRef(f, i) == [frame |-> f, slot |-> i]

State(lmState, lex, parent, score, token, word, prevBlank) ==
  [lmState |-> lmState, lex |-> lex, parent |-> parent, score |-> score,
   token |-> token, word |-> word, prevBlank |-> prevBlank]

\* hyp_[f]: a frame that was never emplaced reads as an empty vector
Frame(h, f) == IF f >= 0 /\ f < Len(h) THEN h[f + 1] ELSE <<>>

\* hyp_[f] = v, the frames up to f being emplaced
SetFrame(h, f, v) ==
  IF f < 0 THEN h
  ELSE [i \in 1 .. Max(Len(h), f + 1) |->
          IF i = f + 1 THEN v ELSE IF i <= Len(h) THEN h[i] ELSE <<>>]

\* the emplace loop replaced by a fresh buffer of the wanted size
ExtendBufferFresh(h, size) ==
  [i \in 1 .. Max(Len(h), size) |-> <<>>]

\* the emplace loop of decodeStep: frames up to size - 1 exist
ExtendBuffer(h, size) ==
  [i \in 1 .. Max(Len(h), size) |-> IF i <= Len(h) THEN h[i] ELSE <<>>]

SameKey(a, b) ==
  /\ a.lmState = b.lmState
  /\ a.lex = b.lex
  /\ a.token = b.token
  /\ a.prevBlank = b.prevBlank

(***************************************************************************)
(* The candidate buffer.                                                   *)
(***************************************************************************)
\* candidatesReset
CandidatesReset == [cands |-> <<>>, best |-> kNegativeInfinity]

\* candidatesAdd without the test of isValidCandidate
CandidatesAddUnchecked(cb, st, thr) ==
  [cands |-> Append(cb.cands, st),
   best |-> UpdatedBestScore(cb.best, st.score)]

\* candidatesAdd with a running best that is never raised
CandidatesAddNoUpdate(cb, st, thr) ==
  [cands |-> IF IsValidCandidate(cb.best, st.score, thr)
             THEN Append(cb.cands, st) ELSE cb.cands,
   best |-> cb.best]

\* candidatesAdd
CandidatesAdd(cb, st, thr) ==
  [cands |-> IF IsValidCandidate(cb.best, st.score, thr)
             THEN Append(cb.cands, st) ELSE cb.cands,
   best |-> UpdatedBestScore(cb.best, st.score)]

RECURSIVE AddAll(_, _, _)
AddAll(cb, props, thr) ==
  IF props = <<>> THEN cb
  ELSE AddAll(CandidatesAdd(cb, Head(props), thr), Tail(props), thr)

\* pruneCandidates: the candidates with score >= threshold, in order
PruneCandidates(cands, threshold) ==
  SelectSeq(cands, LAMBDA c : c.score >= threshold)

BoolRank(b) == IF b THEN 1 ELSE 0

\* compareNodesShortList with the score compared the other way round
CompareNodesShortListAscending(a, b) ==
  IF a.lmState # b.lmState THEN a.lmState > b.lmState
  ELSE IF a.lex # b.lex THEN a.lex > b.lex
  ELSE IF a.token # b.token THEN a.token > b.token
  ELSE IF a.prevBlank # b.prevBlank THEN BoolRank(a.prevBlank) > BoolRank(b.prevBlank)
  ELSE a.score < b.score

\* compareNodesShortList(node1, node2)
CompareNodesShortList(a, b) ==
  IF a.lmState # b.lmState THEN a.lmState > b.lmState
  ELSE IF a.lex # b.lex THEN a.lex > b.lex
  ELSE IF a.token # b.token THEN a.token > b.token
  ELSE IF a.prevBlank # b.prevBlank THEN BoolRank(a.prevBlank) > BoolRank(b.prevBlank)
  ELSE a.score > b.score

\* std::sort with compareNodesShortList; equal elements keep their order
RECURSIVE InsertNode(_, _)
InsertNode(x, s) ==
  IF s = <<>> THEN <<x>>
  ELSE IF CompareNodesShortList(x, Head(s)) THEN <<x>> \o s
  ELSE <<Head(s)>> \o InsertNode(x, Tail(s))

RECURSIVE SortNodes(_, _)
SortNodes(s, acc) ==
  IF s = <<>> THEN acc ELSE SortNodes(Tail(s), InsertNode(Head(s), acc))

\* mergeStates(oldNode, newNode, logAdd)
MergeStates(old, new, logAdd) ==
  [old EXCEPT !.score =
     IF logAdd THEN LogAdd(old.score, new.score) ELSE Max(old.score, new.score)]

\* the sweep of mergeCandidates over the sorted pointers
RECURSIVE Sweep(_, _, _)
Sweep(s, acc, logAdd) ==
  IF s = <<>> THEN acc
  ELSE IF acc # <<>> /\ SameKey(Head(s), acc[Len(acc)])
       THEN Sweep(Tail(s),
                  [acc EXCEPT ![Len(acc)] = MergeStates(acc[Len(acc)], Head(s), logAdd)],
                  logAdd)
       ELSE Sweep(Tail(s), Append(acc, Head(s)), logAdd)

\* mergeCandidates without the sweep that collapses equal keys
MergeCandidatesNoSweep(ptrs, logAdd) == SortNodes(ptrs, <<>>)

\* mergeCandidates
MergeCandidates(ptrs, logAdd) == Sweep(SortNodes(ptrs, <<>>), <<>>, logAdd)

RECURSIVE InsertByScore(_, _)
InsertByScore(x, s) ==
  IF s = <<>> THEN <<x>>
  ELSE IF x.score > Head(s).score THEN <<x>> \o s
  ELSE <<Head(s)>> \o InsertByScore(x, Tail(s))

RECURSIVE SortByScore(_, _)
SortByScore(s, acc) ==
  IF s = <<>> THEN acc ELSE SortByScore(Tail(s), InsertByScore(Head(s), acc))

\* storeTopCandidates: the beamSize best by score
StoreTopCandidates(ptrs, beamSize, returnSorted) ==
  SubSeq(SortByScore(ptrs, <<>>), 1, Min(Len(ptrs), beamSize))

\* candidatesStore without the call of pruneCandidates
CandidatesStoreNoPrune(cb, returnSorted) ==
  IF cb.cands = <<>> THEN <<>>
  ELSE StoreTopCandidates(MergeCandidates(cb.cands, opt.logAdd),
                          opt.beamSize, returnSorted)

\* candidatesStore keeping one state more than beamSize
CandidatesStoreWide(cb, returnSorted) ==
  IF cb.cands = <<>> THEN <<>>
  ELSE StoreTopCandidates(
         MergeCandidates(
           PruneCandidates(cb.cands, Minus(cb.best, opt.beamThreshold)),
           opt.logAdd),
         opt.beamSize + 1, returnSorted)

\* candidatesStore pruning above the best instead of below it
CandidatesStoreSignFlipped(cb, returnSorted) ==
  IF cb.cands = <<>> THEN <<>>
  ELSE StoreTopCandidates(
         MergeCandidates(
           PruneCandidates(cb.cands, Plus(cb.best, opt.beamThreshold)),
           opt.logAdd),
         opt.beamSize, returnSorted)

\* candidatesStore: the vector written to nextHyp
CandidatesStore(cb, returnSorted) ==
  IF cb.cands = <<>> THEN <<>>
  ELSE StoreTopCandidates(
         MergeCandidates(
           PruneCandidates(cb.cands, Minus(cb.best, opt.beamThreshold)),
           opt.logAdd),
         opt.beamSize, returnSorted)

\* std::sort and the top-K selection leave the order of elements that
\* compare equal open; the operators above keep them in the order of arrival,
\* the ones below put the later arrival first
RECURSIVE InsertNodeBeforeEquals(_, _)
InsertNodeBeforeEquals(x, s) ==
  IF s = <<>> THEN <<x>>
  ELSE IF ~CompareNodesShortList(Head(s), x) THEN <<x>> \o s
  ELSE <<Head(s)>> \o InsertNodeBeforeEquals(x, Tail(s))

RECURSIVE SortNodesTiesReversed(_, _)
SortNodesTiesReversed(s, acc) ==
  IF s = <<>> THEN acc
  ELSE SortNodesTiesReversed(Tail(s), InsertNodeBeforeEquals(Head(s), acc))

RECURSIVE InsertByScoreBeforeEquals(_, _)
InsertByScoreBeforeEquals(x, s) ==
  IF s = <<>> THEN <<x>>
  ELSE IF x.score >= Head(s).score THEN <<x>> \o s
  ELSE <<Head(s)>> \o InsertByScoreBeforeEquals(x, Tail(s))

RECURSIVE SortByScoreTiesReversed(_, _)
SortByScoreTiesReversed(s, acc) ==
  IF s = <<>> THEN acc
  ELSE SortByScoreTiesReversed(Tail(s), InsertByScoreBeforeEquals(Head(s), acc))

\* candidatesStore as a build that resolves every tie the other way runs it
CandidatesStoreTiesReversed(cb, returnSorted) ==
  IF cb.cands = <<>> THEN <<>>
  ELSE LET kept == PruneCandidates(cb.cands, Minus(cb.best, opt.beamThreshold))
           merged == Sweep(SortNodesTiesReversed(kept, <<>>), <<>>, opt.logAdd)
       IN SubSeq(SortByScoreTiesReversed(merged, <<>>), 1,
                 Min(Len(merged), opt.beamSize))

(***************************************************************************)
(* Per-frame expansion (the body of the loop over t in decodeStep).        *)
(***************************************************************************)
IsCTC == opt.criterionType = "CTC"
IsASG == opt.criterionType = "ASG"

\* the top beamSizeToken tokens of a row, as std::partial_sort may leave them
\* at the front of idx (equal emissions may come in either order)
TokenOrders(row) ==
  IF N > opt.beamSizeToken
  THEN {ix \in [1 .. opt.beamSizeToken -> Tokens] :
          /\ \A i, j \in 1 .. opt.beamSizeToken : i < j =>
                ix[i] # ix[j] /\ row[ix[i] + 1] >= row[ix[j] + 1]
          /\ \A m \in Tokens :
                (\A i \in 1 .. opt.beamSizeToken : ix[i] # m) =>
                   row[m + 1] <= row[ix[opt.beamSizeToken] + 1]}
  ELSE {[i \in 1 .. N |-> i - 1]}

\* score = prevHyp.score + emissions[t * N + n] (+ transition) (+ silScore)
BaseScore(p, n, row, step) ==
  Plus(Plus(Plus(p.score, row[n + 1]),
            IF step > 0 /\ IsASG THEN Transitions(n, p.token) ELSE 0),
       IF n = sil THEN opt.silScore ELSE 0)

LexMaxScore(p) == IF p.lex = Root THEN 0 ELSE TrieMaxScore(p.lex)

\* the CTC repeat test guarding "we eat-up a new token"
EatsNewToken(p, n) == ~IsCTC \/ p.prevBlank \/ n # p.token

\* continue spelling with the token passed as the word as well
ContinueCandidateWithWord(p, par, n, row, step) ==
  LET lex == Child(p.lex, n)
      ret == LmScore(p.lmState, n)
      lmState == IF isLmToken THEN ret.state ELSE p.lmState
      lmScore == IF isLmToken THEN ret.score
                 ELSE TrieMaxScore(lex) - LexMaxScore(p)
  IN IF EatsNewToken(p, n) /\ TrieChildren(lex) # {}
     THEN <<State(lmState, lex, par,
                  Plus(BaseScore(p, n, row, step), opt.lmWeight * lmScore),
                  n, n, FALSE)>>
     ELSE <<>>

\* (1) continue spelling
ContinueCandidate(p, par, n, row, step) ==
  LET lex == Child(p.lex, n)
      ret == LmScore(p.lmState, n)
      lmState == IF isLmToken THEN ret.state ELSE p.lmState
      lmScore == IF isLmToken THEN ret.score
                 ELSE TrieMaxScore(lex) - LexMaxScore(p)
  IN IF EatsNewToken(p, n) /\ TrieChildren(lex) # {}
     THEN <<State(lmState, lex, par,
                  Plus(BaseScore(p, n, row, step), opt.lmWeight * lmScore),
                  n, NoWord, FALSE)>>
     ELSE <<>>

\* a word emission that stays on the child instead of returning to the root
EmitCandidateAtChild(p, par, n, row, step, label, bonus) ==
  LET tok == LmScore(p.lmState, n)
      wrd == LmScore(p.lmState, label)
      lmState == IF isLmToken THEN tok.state ELSE wrd.state
      lmScore == IF isLmToken THEN tok.score ELSE wrd.score - LexMaxScore(p)
  IN State(lmState, Child(p.lex, n), par,
           Plus(Plus(BaseScore(p, n, row, step), opt.lmWeight * lmScore), bonus),
           n, label, FALSE)

\* (1) one candidate per label of the child, or the unknown word
EmitCandidate(p, par, n, row, step, label, bonus) ==
  LET tok == LmScore(p.lmState, n)
      wrd == LmScore(p.lmState, label)
      lmState == IF isLmToken THEN tok.state ELSE wrd.state
      lmScore == IF isLmToken THEN tok.score ELSE wrd.score - LexMaxScore(p)
  IN State(lmState, Root, par,
           Plus(Plus(BaseScore(p, n, row, step), opt.lmWeight * lmScore), bonus),
           n, label, FALSE)

WordCandidates(p, par, n, row, step) ==
  LET labels == Labels(Child(p.lex, n))
  IN [k \in 1 .. Len(labels) |->
        EmitCandidate(p, par, n, row, step, labels[k], opt.wordScore)]

UnkCandidate(p, par, n, row, step) ==
  IF Labels(Child(p.lex, n)) = <<>> /\ opt.unkScore > kNegativeInfinity
  THEN <<EmitCandidate(p, par, n, row, step, unk, opt.unkScore)>>
  ELSE <<>>

\* (1) all candidates of prevHyp for token n
ChildCandidates(p, par, n, row, step) ==
  IF HasChild(p.lex, n)
  THEN ContinueCandidate(p, par, n, row, step)
       \o WordCandidates(p, par, n, row, step)
       \o UnkCandidate(p, par, n, row, step)
  ELSE <<>>

RECURSIVE TryChildren(_, _, _, _, _)
TryChildren(p, par, idx, row, step) ==
  IF idx = <<>> THEN <<>>
  ELSE ChildCandidates(p, par, Head(idx), row, step)
       \o TryChildren(p, par, Tail(idx), row, step)

\* (2) same lexicon node
SameNodeCandidate(p, par, row, step) ==
  IF ~IsCTC \/ ~p.prevBlank
  THEN <<State(p.lmState, p.lex, par, BaseScore(p, p.token, row, step),
               p.token, NoWord, FALSE)>>
  ELSE <<>>

\* (3) CTC only, blank
BlankCandidate(p, par, row) ==
  IF IsCTC
  THEN <<State(p.lmState, p.lex, par, Plus(p.score, row[blank + 1]),
               blank, NoWord, TRUE)>>
  ELSE <<>>

\* every candidate offered for the states i, i + 1, ... of the frame f
RECURSIVE Proposals(_, _, _, _, _)
Proposals(prev, f, i, in, step) ==
  IF i > Len(prev) THEN <<>>
  ELSE TryChildren(prev[i], ParentRef(f, i), in.idx, in.row, step)
       \o SameNodeCandidate(prev[i], ParentRef(f, i), in.row, step)
       \o BlankCandidate(prev[i], ParentRef(f, i), in.row)
       \o Proposals(prev, f, i + 1, in, step)

\* candidatesReset and the loop over prevHyp of one time step
ExpandFrame(prev, f, in, step) ==
  AddAll(CandidatesReset, Proposals(prev, f, 1, in, step), opt.beamThreshold)

(***************************************************************************)
(* Backtracking helpers.                                                   *)
(***************************************************************************)
HasNode(h, ref) ==
  ref.frame >= 0 /\ ref.slot >= 1 /\ ref.slot <= Len(Frame(h, ref.frame))

Node(h, ref) == Frame(h, ref.frame)[ref.slot]

\* the k-th ancestor of the state at ref, NullParent when the chain ends
RECURSIVE Ancestor(_, _, _)
Ancestor(h, ref, k) ==
  IF ~HasNode(h, ref) THEN NullParent
  ELSE IF k <= 0 THEN ref
  ELSE Ancestor(h, Node(h, ref).parent, k - 1)

\* findBestAncestor(hyp_[f], lookBack): the lookBack-th ancestor of the
\* highest-scoring state of frame f that has one
FindBestAncestor(h, f, lookBack) ==
  LET vec == Frame(h, f)
      ok == {i \in 1 .. Len(vec) : Ancestor(h, ParentRef(f, i), lookBack) # NullParent}
      best == CHOOSE i \in ok :
                \A j \in ok : vec[i].score > vec[j].score
                                \/ (vec[i].score = vec[j].score /\ i <= j)
  IN IF ok = {} THEN NullParent ELSE Ancestor(h, ParentRef(f, best), lookBack)

\* getHypothesis(node, frame): the <<token, word>> pairs on the path that
\* ends at node, oldest first
RECURSIVE GetHypothesis(_, _)
GetHypothesis(h, ref) ==
  IF ~HasNode(h, ref) THEN <<>>
  ELSE Append(GetHypothesis(h, Node(h, ref).parent),
              <<Node(h, ref).token, Node(h, ref).word>>)

\* pruneAndNormalize(hyp_, startFrame, lookBack): frames below startFrame
\* are dropped, the others move to the front; base is subtracted from every
\* remaining score; the states of the new frame 0 lose their parent
PruneAndNormalize(h, startFrame, lookBack, base) ==
  [i \in 1 .. Max(Len(h) - startFrame, 0) |->
     [k \in 1 .. Len(h[i + startFrame]) |->
        LET s == h[i + startFrame][k]
        IN [s EXCEPT !.score = s.score - base,
                     !.parent = IF i = 1 THEN NullParent
                                ELSE ParentRef(s.parent.frame - startFrame,
                                               s.parent.slot)]]]

(***************************************************************************)
(* Beam lifecycle.                                                         *)
(***************************************************************************)
CurrentFrame == nDecodedFrames - nPrunedFrames

\* decodeBegin: hyp_ holds the initial state at frame 0
InitialBuffer ==
  <<<<State(LmStart, Root, NullParent, 0, sil, NoWord, FALSE)>>>>

\* the loop over t with the transition term skipped at t = 0 of every call
RECURSIVE StepFramesLocalStep(_, _, _, _, _, _)
StepFramesLocalStep(h, best, start, nDec, inputs, t) ==
  IF t >= Len(inputs) THEN [hyp |-> h, best |-> best]
  ELSE LET cb == ExpandFrame(Frame(h, start + t), start + t, inputs[t + 1], t)
       IN StepFramesLocalStep(SetFrame(h, start + t + 1, CandidatesStore(cb, FALSE)),
                              cb.best, start, nDec, inputs, t + 1)

\* the loop over t of decodeStep, from time step t on; nDec is
\* nDecodedFrames_ and start is startFrame
RECURSIVE StepFrames(_, _, _, _, _, _)
StepFrames(h, best, start, nDec, inputs, t) ==
  IF t >= Len(inputs) THEN [hyp |-> h, best |-> best]
  ELSE LET cb == ExpandFrame(Frame(h, start + t), start + t, inputs[t + 1], nDec + t)
       IN StepFrames(SetFrame(h, start + t + 1, CandidatesStore(cb, FALSE)),
                     cb.best, start, nDec, inputs, t + 1)

\* decodeStep(emissions, T, N) on the buffer h
DecodeStepOn(h, best, start, nDec, inputs) ==
  StepFrames(ExtendBuffer(h, start + Len(inputs) + 2), best, start, nDec, inputs, 0)

\* decodeEnd with hasNiceEnding never set
HasNiceEndingNever(vec) == FALSE

\* decodeEnd: the candidates offered from the last beam
HasNiceEnding(vec) == \E i \in 1 .. Len(vec) : vec[i].lex = Root

RECURSIVE EndProposals(_, _, _, _)
EndProposals(vec, f, i, nice) ==
  IF i > Len(vec) THEN <<>>
  ELSE (IF ~nice \/ vec[i].lex = Root
        THEN <<State(LmFinish(vec[i].lmState).state, vec[i].lex, ParentRef(f, i),
                     Plus(vec[i].score,
                          opt.lmWeight * LmFinish(vec[i].lmState).score),
                     sil, NoWord, FALSE)>>
        ELSE <<>>)
       \o EndProposals(vec, f, i + 1, nice)

\* decodeEnd storing one frame too far
EndFrameSkipping(cur) == cur + 2

\* the frame decodeEnd stores into
EndFrame(cur) == cur + 1

DecodeEndOn(h, cur) ==
  LET vec == Frame(h, cur)
      cb == AddAll(CandidatesReset,
                   EndProposals(vec, cur, 1, HasNiceEnding(vec)),
                   opt.beamThreshold)
  IN [hyp |-> SetFrame(h, EndFrame(cur), CandidatesStore(cb, TRUE)), best |-> cb.best]

\* prune without the test of bestNode
PruneReturnsEarlyNoNullTest(lookBack) == CurrentFrame - lookBack < 1

\* the three early returns of prune
PruneReturnsEarly(lookBack) ==
  \/ CurrentFrame - lookBack < 1
  \/ FindBestAncestor(hyp, CurrentFrame, lookBack) = NullParent
  \/ CurrentFrame - lookBack < 1

\* prune counting one pruned frame too few
PrunedFramesAfterOffByOne(lookBack) == nDecodedFrames - lookBack - 1

\* nPrunedFrames_ after a prune that went through
PrunedFramesAfter(lookBack) == nDecodedFrames - lookBack

(***************************************************************************)
(* Inputs.                                                                 *)
(***************************************************************************)
EmissionRows ==
  { <<0, -1, -3>>, <<-3, -3, 0>>,
    <<kNegativeInfinity, kNegativeInfinity, kNegativeInfinity>> }

\* on a row of -inf only, every candidate scores -inf and is turned away
\* whatever tokens idx holds, so one order stands for all of them
DeadRow(r) == \A n \in 1 .. N : r[n] = kNegativeInfinity

OrdersTried(r) ==
  IF DeadRow(r) THEN {CHOOSE ix \in TokenOrders(r) : TRUE} ELSE TokenOrders(r)

FrameInputs ==
  UNION {{[row |-> r, idx |-> ix] : ix \in OrdersTried(r)} : r \in EmissionRows}

Options ==
  [beamSize : {1, 2}, beamSizeToken : {2, 3}, beamThreshold : {2},
   lmWeight : {1}, wordScore : {1}, unkScore : {kNegativeInfinity, -1},
   silScore : {-1}, logAdd : BOOLEAN, criterionType : {"CTC", "ASG"}]

\* the configurations decoded with: both criteria, with log-add on and off
\* for (beamSize 2, beamSizeToken 3, unkScore -1, a word LM), and with one
\* of these four changed when log-add is off
Departures(c) ==
  (IF c.opt.beamSize # 2 THEN 1 ELSE 0)
  + (IF c.opt.beamSizeToken # 3 THEN 1 ELSE 0)
  + (IF c.opt.unkScore # -1 THEN 1 ELSE 0)
  + (IF c.isLmToken THEN 1 ELSE 0)

Configs ==
  {c \in [opt : Options, isLmToken : BOOLEAN] :
     Departures(c) = 0 \/ (Departures(c) = 1 /\ ~c.opt.logAdd)}

LookBacks == 0 .. MaxLookBack
AnyLookBacks == -1 .. MaxLookBack

(***************************************************************************)
(* The state machine.                                                      *)
(***************************************************************************)
Init ==
  /\ hyp = <<>>
  /\ nDecodedFrames = 0
  /\ nPrunedFrames = 0
  /\ candidatesBestScore = kNegativeInfinity
  /\ \E c \in Configs : opt = c.opt /\ isLmToken = c.isLmToken
  /\ refHyp = <<>>
  /\ prunedBase = 0
  /\ lastOp = "new"

Begun == lastOp # "new"

DecodeBegin ==
  /\ hyp' = InitialBuffer
  /\ nDecodedFrames' = 0
  /\ nPrunedFrames' = 0
  /\ refHyp' = InitialBuffer
  /\ prunedBase' = 0
  /\ lastOp' = "decodeBegin"
  /\ UNCHANGED <<candidatesBestScore, opt, isLmToken>>

DecodeStep ==
  /\ Begun
  /\ \E T \in 0 .. MaxT :
       /\ nDecodedFrames + T <= MaxFrames
       /\ \E inputs \in [1 .. T -> FrameInputs] :
            LET res == DecodeStepOn(hyp, candidatesBestScore, CurrentFrame,
                                    nDecodedFrames, inputs)
                ref == DecodeStepOn(refHyp, candidatesBestScore, nDecodedFrames,
                                    nDecodedFrames, inputs)
            IN /\ hyp' = res.hyp
               /\ candidatesBestScore' = res.best
               /\ refHyp' = ref.hyp
               /\ nDecodedFrames' = nDecodedFrames + T
               /\ lastOp' = "decodeStep"
  /\ UNCHANGED <<nPrunedFrames, opt, isLmToken, prunedBase>>

DecodeEnd ==
  /\ Begun
  /\ nDecodedFrames < MaxFrames
  /\ LET res == DecodeEndOn(hyp, CurrentFrame)
         ref == DecodeEndOn(refHyp, nDecodedFrames)
     IN /\ hyp' = res.hyp
        /\ candidatesBestScore' = res.best
        /\ refHyp' = ref.hyp
  /\ nDecodedFrames' = nDecodedFrames + 1
  /\ lastOp' = "decodeEnd"
  /\ UNCHANGED <<nPrunedFrames, opt, isLmToken, prunedBase>>

\* prune(lookBack)
PruneOp(lookBack) ==
  /\ Begun
  /\ IF PruneReturnsEarly(lookBack)
     THEN /\ lastOp' = "pruneReturned"
          /\ UNCHANGED <<hyp, nPrunedFrames, prunedBase>>
     ELSE LET a == FindBestAncestor(hyp, CurrentFrame, lookBack)
              base == IF HasNode(hyp, a) THEN Node(hyp, a).score ELSE 0
          IN /\ hyp' = PruneAndNormalize(hyp, CurrentFrame - lookBack, lookBack, base)
             /\ nPrunedFrames' = PrunedFramesAfter(lookBack)
             /\ prunedBase' = prunedBase + base
             /\ lastOp' = "prune"
  /\ UNCHANGED <<nDecodedFrames, candidatesBestScore, opt, isLmToken, refHyp>>

Prune == \E lookBack \in LookBacks : PruneOp(lookBack)

PruneAny == \E lookBack \in AnyLookBacks : PruneOp(lookBack)

Next == DecodeBegin \/ DecodeStep \/ DecodeEnd \/ Prune

Spec == Init /\ [][Next]_vars

NextAny == DecodeBegin \/ DecodeStep \/ DecodeEnd \/ PruneAny

SpecAnyLookBack == Init /\ [][NextAny]_vars

(***************************************************************************)
(* Read-only accessors.                                                    *)
(***************************************************************************)
\* nHypothesis
NHypothesis == Len(Frame(hyp, CurrentFrame))

\* the path getHypothesis returns for the best state of frame f
BestPath(h, f) == GetHypothesis(h, FindBestAncestor(h, f, 0))

BestScore(h, f) == Node(h, FindBestAncestor(h, f, 0)).score

\* getAllFinalHypothesis: one path per state of the final frame
GetAllFinalHypothesis ==
  IF CurrentFrame < 1 THEN <<>>
  ELSE [i \in 1 .. Len(Frame(hyp, CurrentFrame)) |->
          GetHypothesis(hyp, ParentRef(CurrentFrame, i))]

\* getBestHypothesis(lookBack) without the test of the frame count
GetBestHypothesisUnguarded(lookBack) ==
  GetHypothesis(hyp, FindBestAncestor(hyp, CurrentFrame, lookBack))

\* getBestHypothesis(lookBack)
GetBestHypothesis(lookBack) ==
  IF CurrentFrame - lookBack < 1 THEN <<>>
  ELSE GetHypothesis(hyp, FindBestAncestor(hyp, CurrentFrame, lookBack))

(***************************************************************************)
(* Properties.                                                             *)
(***************************************************************************)
BufferFrames == 0 .. (Len(hyp) - 1)

Slots(f) == 1 .. Len(Frame(hyp, f))

At(f, i) == Frame(hyp, f)[i]

WithinBeamOfStoredMax ==
  \A f \in BufferFrames : \A i, j \in Slots(f) :
     At(f, i).score >= At(f, j).score - opt.beamThreshold

\* C1 as stated: in every frame, every stored score is within
\* beam_threshold of the largest stored score, log_add on or off.
C1_WithinBeamAnyLogAdd == WithinBeamOfStoredMax

\* C1 amended: with log_add off, in every frame every stored score is within
\* beam_threshold of the largest stored score of the frame.
C1_WithinBeamLogAddOff == ~opt.logAdd => WithinBeamOfStoredMax

\* a frame written by decodeStep holds a state exactly beam_threshold below
\* its best one, log_add being off
C1_Witness ==
  /\ ~opt.logAdd
  /\ lastOp = "decodeStep"
  /\ \E i, j \in Slots(CurrentFrame) :
       At(CurrentFrame, i).score = At(CurrentFrame, j).score - opt.beamThreshold

\* C2: under CTC a stored state whose token repeats that of its parent, the
\* parent having prev_blank false, was not produced by rule 1: it carries no
\* word and sits on the parent's trie node.
C2_NoAdvanceOnRepeat ==
  IsCTC =>
    \A f \in BufferFrames : \A i \in Slots(f) :
       LET s == At(f, i)
       IN (HasNode(hyp, s.parent)
           /\ s.token = Node(hyp, s.parent).token
           /\ ~Node(hyp, s.parent).prevBlank)
          => (s.word = NoWord /\ s.lex = Node(hyp, s.parent).lex)

\* C3: within any frame no two states share the key
\* (lm_state, lex, token, prev_blank).
C3_KeysUnique ==
  \A f \in BufferFrames : \A i, j \in Slots(f) :
     SameKey(At(f, i), At(f, j)) => i = j

\* a frame written after a prune holds two states
C3_Witness ==
  /\ lastOp = "decodeStep"
  /\ nPrunedFrames > 0
  /\ CurrentFrame >= 2
  /\ Len(Frame(hyp, CurrentFrame)) >= 2

\* C4: every frame holds at most beam_size states, and so does the frame
\* n_hypothesis() counts.
C4_FrameWithinBeamSize ==
  Begun =>
    /\ \A f \in BufferFrames : Len(Frame(hyp, f)) <= opt.beamSize
    /\ NHypothesis <= opt.beamSize

\* decodeEnd stored a full frame on top of a full beam
C4_Witness ==
  /\ lastOp = "decodeEnd"
  /\ CurrentFrame >= 2
  /\ NHypothesis = opt.beamSize
  /\ Len(Frame(hyp, CurrentFrame - 1)) = opt.beamSize
  /\ opt.beamSize = 2

\* C5: a state of frame f > 0 has its parent in frame f - 1; the states of
\* frame 0, and only they, have a null parent.
C5_ParentInPreviousFrame ==
  \A f \in BufferFrames : \A i \in Slots(f) :
     IF f = 0 THEN At(f, i).parent = NullParent
     ELSE /\ At(f, i).parent.frame = f - 1
          /\ At(f, i).parent.slot \in Slots(f - 1)

\* decodeEnd stored a state, after a prune rebased the buffer
C5_Witness ==
  /\ lastOp = "decodeEnd"
  /\ nPrunedFrames > 0
  /\ CurrentFrame >= 2
  /\ NHypothesis >= 1

\* C6 as stated: after a decode_step, for every state, word = -1 exactly if
\* lex is not the root, unknown-word emissions excepted.
C6_WordIffNotRoot ==
  (lastOp = "decodeStep" /\ nDecodedFrames > 0) =>
    \A f \in BufferFrames : \A i \in Slots(f) :
       \/ (At(f, i).word = NoWord) <=> (At(f, i).lex # Root)
       \/ (At(f, i).lex = Root /\ At(f, i).word = unk)

\* C6 amended: a state off the root has word = -1; a state at the root has
\* word = -1 only if it has no parent or its parent is at the root too.
C6_WordlessOffRoot ==
  \A f \in BufferFrames : \A i \in Slots(f) :
     LET s == At(f, i)
     IN /\ s.lex # Root => s.word = NoWord
        /\ (s.lex = Root /\ s.word = NoWord) =>
             (s.parent = NullParent
              \/ (HasNode(hyp, s.parent) /\ Node(hyp, s.parent).lex = Root))

\* after a decodeStep the beam holds a state in the middle of a word and a
\* state at the root that emits no word
C6_Witness ==
  /\ lastOp = "decodeStep"
  /\ CurrentFrame >= 1
  /\ \E i, j \in Slots(CurrentFrame) :
       /\ At(CurrentFrame, i).lex # Root
       /\ At(CurrentFrame, j).lex = Root
       /\ At(CurrentFrame, j).word = NoWord

\* C7: every state that carries a word, a lexicon word or the unknown word,
\* is at the root of the trie.
C7_WordOnlyAtRoot ==
  \A f \in BufferFrames : \A i \in Slots(f) :
     At(f, i).word # NoWord => At(f, i).lex = Root

\* after decodeEnd the buffer holds a state that emits a lexicon word and a
\* state that emits the unknown word
C7_Witness ==
  /\ lastOp = "decodeEnd"
  /\ \E f \in BufferFrames : \E i \in Slots(f) : At(f, i).word = unk
  /\ \E f \in BufferFrames : \E i \in Slots(f) : At(f, i).word \in {0, 1}

\* C8: n_decoded_frames >= n_pruned_frames >= 0, whatever look_back the
\* caller passes to prune.
C8_CountersOrdered == nDecodedFrames >= nPrunedFrames /\ nPrunedFrames >= 0

IsSuffix(s, t) ==
  Len(s) <= Len(t) /\ s = SubSeq(t, Len(t) - Len(s) + 1, Len(t))

\* C9: the current beam has the size it has in the run without prune; its
\* best hypothesis is, on the frames still in the buffer, the best
\* hypothesis of that run; the best scores differ by the subtracted base.
C9_PruneTransparent ==
  Begun =>
    /\ NHypothesis = Len(Frame(refHyp, nDecodedFrames))
    /\ IsSuffix(BestPath(hyp, CurrentFrame), BestPath(refHyp, nDecodedFrames))
    /\ NHypothesis > 0 =>
         /\ Len(BestPath(hyp, CurrentFrame)) = CurrentFrame + 1
         /\ BestScore(hyp, CurrentFrame) + prunedBase
              = BestScore(refHyp, nDecodedFrames)

\* frames were decoded after a prune that subtracted a non-zero base
C9_Witness ==
  /\ lastOp = "decodeStep"
  /\ nPrunedFrames > 0
  /\ prunedBase # 0
  /\ CurrentFrame >= 2
  /\ NHypothesis >= 2

InsufficientHistory(lookBack) ==
  CurrentFrame - lookBack < 1 \/ Len(Frame(hyp, CurrentFrame)) = 0

\* C10: a prune called with insufficient history, or on an empty beam,
\* leaves the buffer and both counters as they were.
C10_PruneWithoutEffect ==
  [][\A lookBack \in LookBacks :
       (PruneOp(lookBack) /\ InsufficientHistory(lookBack))
         => UNCHANGED <<hyp, nDecodedFrames, nPrunedFrames>>]_vars

\* prune returned early on an empty beam although enough frames were decoded
C10_Witness ==
  /\ lastOp = "pruneReturned"
  /\ CurrentFrame >= MaxLookBack + 1
  /\ Len(Frame(hyp, CurrentFrame)) = 0

\* nDecodedFramesInBuffer
NDecodedFramesInBuffer == nDecodedFrames - nPrunedFrames + 1

\* what a prune that went through leaves: the counter, the number of frames
\* in the buffer, and the frames from start on moved to the front
PruneEffect(lookBack) ==
  /\ nPrunedFrames' = nDecodedFrames - lookBack
  /\ NDecodedFramesInBuffer' = lookBack + 1
  /\ \A i \in 0 .. lookBack :
       /\ Len(Frame(hyp', i)) = Len(Frame(hyp, i + CurrentFrame - lookBack))
       /\ \A k \in 1 .. Len(Frame(hyp', i)) :
            SameKey(Frame(hyp', i)[k], Frame(hyp, i + CurrentFrame - lookBack)[k])
  /\ \A i \in 0 .. (Len(hyp') - 1) : i > lookBack => Frame(hyp', i) = <<>>

\* C11 as stated: after a prune(look_back) whose guard
\* n_decoded_frames - n_pruned_frames - look_back >= 1 passes,
\* n_pruned_frames = n_decoded_frames - look_back and the buffer holds
\* look_back + 1 decoded frames.
C11_PruneWhenGuardPasses ==
  [][\A lookBack \in LookBacks :
       (PruneOp(lookBack) /\ CurrentFrame - lookBack >= 1)
         => PruneEffect(lookBack)]_vars

\* C11 amended: after a prune(look_back) whose guard passes on a non-empty
\* current beam, n_pruned_frames = n_decoded_frames - look_back, the frames
\* below start are dropped and the buffer holds look_back + 1 decoded frames.
C11_PruneOnLiveBeam ==
  [][\A lookBack \in LookBacks :
       (PruneOp(lookBack) /\ ~InsufficientHistory(lookBack))
         => PruneEffect(lookBack)]_vars

\* a second prune went through, keeping look_back + 1 = 2 frames
C11_Witness ==
  /\ lastOp = "prune"
  /\ nPrunedFrames >= 2
  /\ NDecodedFramesInBuffer = 2
  /\ NHypothesis >= 1

\* the frame f of h as decodeEnd leaves it, prev being the beam it extended
EndedFrame(h, f, prev) ==
  /\ \A i \in 1 .. Len(Frame(h, f)) :
       LET s == Frame(h, f)[i]
       IN /\ s.token = sil /\ s.word = NoWord /\ ~s.prevBlank
          /\ s.parent.frame = f - 1
          /\ s.parent.slot \in 1 .. Len(prev)
          /\ s.lex = prev[s.parent.slot].lex
          /\ (\E k \in 1 .. Len(prev) : prev[k].lex = Root) => s.lex = Root
  /\ Len(prev) > 0 => Len(Frame(h, f)) > 0

\* C12: decodeEnd extends only the states at the root when the last beam has
\* one, and any state otherwise; every state of the final frame has token
\* sil, word -1 and prev_blank false and sits on its parent's trie node;
\* n_decoded_frames grows by exactly 1.
C12_DecodeEndExtendsNiceEndings ==
  [][DecodeEnd =>
       /\ nDecodedFrames' = nDecodedFrames + 1
       /\ nPrunedFrames' = nPrunedFrames
       /\ EndedFrame(hyp', CurrentFrame + 1, Frame(hyp, CurrentFrame))]_vars

\* decodeEnd ran on a beam with a state at the root and a state in the
\* middle of a word
C12_Witness ==
  /\ lastOp = "decodeEnd"
  /\ NHypothesis >= 1
  /\ \E i, j \in Slots(CurrentFrame - 1) :
       /\ At(CurrentFrame - 1, i).lex = Root
       /\ At(CurrentFrame - 1, j).lex # Root

\* every candidate a time step with input in would offer from the current
\* beam has score -inf (or there is none)
Exhausted(in) ==
  LET props == Proposals(Frame(hyp, CurrentFrame), CurrentFrame, 1, in,
                         nDecodedFrames)
  IN \A k \in 1 .. Len(props) : props[k].score = kNegativeInfinity

ExhaustedFrameIsEmpty ==
  Begun =>
    \A in \in FrameInputs :
       Exhausted(in) =>
         CandidatesStore(ExpandFrame(Frame(hyp, CurrentFrame), CurrentFrame, in,
                                     nDecodedFrames), FALSE) = <<>>

EmptyBeamStays ==
  (Begun /\ NHypothesis = 0 /\ lastOp' # "decodeBegin") =>
     /\ NHypothesis' = 0
     /\ GetAllFinalHypothesis' = <<>>
     /\ \A lookBack \in LookBacks : GetBestHypothesis(lookBack)' = <<>>
     /\ \A f \in 0 .. (Len(hyp') - 1) : f > CurrentFrame => Frame(hyp', f) = <<>>

\* C13: a time step whose candidates are all exhausted stores an empty
\* frame; once the current beam is empty, decode_step, decode_end and prune
\* leave it empty, the frames they write are empty, and get_best_hypothesis
\* and get_all_final_hypothesis return the empty result.
C13_EmptyBeamAbsorbing == []ExhaustedFrameIsEmpty /\ [][EmptyBeamStays]_vars

\* decodeEnd ran on a beam that a decodeStep had left empty
C13_Witness ==
  /\ lastOp = "decodeEnd"
  /\ CurrentFrame >= 3
  /\ NHypothesis = 0
  /\ Len(Frame(hyp, CurrentFrame - 2)) = 0
  /\ Len(Frame(hyp, CurrentFrame - 3)) > 0

\* a step taken by decodeStep with T = 0
EmptyDecodeStep == lastOp' = "decodeStep" /\ nDecodedFrames' = nDecodedFrames

\* C14: decode_step with T = 0 leaves the states of every frame of the
\* buffer, n_decoded_frames and n_pruned_frames as they were (the only
\* trace of the call is the allocation of empty frames past the current one).
C14_EmptyStepIsNoOp ==
  [][EmptyDecodeStep =>
       /\ nPrunedFrames' = nPrunedFrames
       /\ candidatesBestScore' = candidatesBestScore
       /\ \A f \in 0 .. (Len(hyp') - 1) : Frame(hyp', f) = Frame(hyp, f)
       /\ \A f \in 0 .. (Len(hyp) - 1) : Frame(hyp', f) = Frame(hyp, f)]_vars

\* a call with T = 0 followed a prune(0) of a populated beam: only such a
\* call leaves lastOp = "decodeStep" with the two counters equal
C14_Witness ==
  /\ lastOp = "decodeStep"
  /\ nPrunedFrames >= 1
  /\ nDecodedFrames = nPrunedFrames
  /\ NHypothesis >= 2
  /\ Len(hyp) >= 2

\* the look-backs asked of getBestHypothesis
QueryLookBacks == 0 .. (MaxFrames + 1)

\* slot i holds a highest-scoring state of the current frame
IsBestSlot(i) ==
  \A j \in Slots(CurrentFrame) : At(CurrentFrame, i).score >= At(CurrentFrame, j).score

\* C15: with at least one frame left after looking back k frames and a
\* non-empty beam, get_best_hypothesis(k) is the path to the k-th ancestor of
\* a highest-scoring state of the current frame, which is
\* get_best_hypothesis(0) without its last k frames; with less than one
\* frame left it is the empty result.
C15_BestHypothesisTruncates ==
  Begun =>
    \A k \in QueryLookBacks :
       /\ CurrentFrame - k < 1 => GetBestHypothesis(k) = <<>>
       /\ (CurrentFrame - k >= 1 /\ NHypothesis >= 1) =>
            /\ \E i \in Slots(CurrentFrame) :
                  /\ IsBestSlot(i)
                  /\ GetBestHypothesis(k) =
                       GetHypothesis(hyp, Ancestor(hyp, ParentRef(CurrentFrame, i), k))
            /\ Len(GetBestHypothesis(k)) = CurrentFrame - k + 1
            /\ GetBestHypothesis(k) =
                 SubSeq(GetBestHypothesis(0), 1, Len(GetBestHypothesis(0)) - k)

\* a pruned buffer of three frames whose best path changes token in its
\* last frame, so that looking back one frame gives a different path
C15_Witness ==
  /\ nPrunedFrames >= 1
  /\ CurrentFrame >= 2
  /\ NHypothesis >= 2
  /\ Len(GetBestHypothesis(1)) = CurrentFrame
  /\ GetBestHypothesis(0)[CurrentFrame + 1] # GetBestHypothesis(0)[CurrentFrame]

\* the frame a time step with input in writes from the current beam, by
\* the two resolutions of ties
NextBeam(in) ==
  CandidatesStore(ExpandFrame(Frame(hyp, CurrentFrame), CurrentFrame, in,
                              nDecodedFrames), FALSE)

NextBeamTiesReversed(in) ==
  CandidatesStoreTiesReversed(ExpandFrame(Frame(hyp, CurrentFrame), CurrentFrame,
                                          in, nDecodedFrames), FALSE)

Offered(in) ==
  Proposals(Frame(hyp, CurrentFrame), CurrentFrame, 1, in, nDecodedFrames)

RECURSIVE MaxScore(_)
MaxScore(props) ==
  IF props = <<>> THEN kNegativeInfinity
  ELSE Max(Head(props).score, MaxScore(Tail(props)))

Reverse(s) == [i \in 1 .. Len(s) |-> s[Len(s) + 1 - i]]

\* what the prune step of candidatesStore keeps of a filled buffer
Retained(cb) ==
  PruneCandidates(cb.cands, Minus(cb.best, opt.beamThreshold))

\* adding the candidates of rest one by one to cb, whose running best is
\* the maximum m offered so far, keeps the two equal after every add
RECURSIVE BestTracksMax(_, _, _)
BestTracksMax(cb, m, rest) ==
  /\ cb.best = m
  /\ rest # <<>> =>
       BestTracksMax(CandidatesAdd(cb, Head(rest), opt.beamThreshold),
                     Max(m, Head(rest).score), Tail(rest))

\* after any number of adds the running best is the maximum offered so far
RunningBestIsMaxOffered ==
  Begun =>
    \A in \in FrameInputs :
       BestTracksMax(CandidatesReset, kNegativeInfinity, Offered(in))

\* C17 as claimed: the running best is the maximum offered, and the prune
\* step keeps exactly the offered candidates with score >= best - threshold,
\* in whatever order they were added.
C17_RetainedIsWithinThreshold ==
  /\ RunningBestIsMaxOffered
  /\ Begun =>
       \A in \in FrameInputs :
          LET off == Offered(in)
              cb == AddAll(CandidatesReset, off, opt.beamThreshold)
              rev == AddAll(CandidatesReset, Reverse(off), opt.beamThreshold)
              within(c) == c.score >= Minus(cb.best, opt.beamThreshold)
          IN /\ Retained(cb) = SelectSeq(off, within)
             /\ Retained(rev) = Reverse(Retained(cb))

\* C17: the running best is the maximum offered, and the prune step keeps
\* exactly the offered candidates with score >= best - threshold and a score
\* above -inf, in whatever order they were added.
C17_RetainedIsFiniteWithinThreshold ==
  /\ RunningBestIsMaxOffered
  /\ Begun =>
       \A in \in FrameInputs :
          LET off == Offered(in)
              cb == AddAll(CandidatesReset, off, opt.beamThreshold)
              rev == AddAll(CandidatesReset, Reverse(off), opt.beamThreshold)
              within(c) == /\ c.score >= Minus(cb.best, opt.beamThreshold)
                           /\ c.score > kNegativeInfinity
          IN /\ cb.best = rev.best
             /\ Retained(cb) = SelectSeq(off, within)
             /\ Retained(rev) = Reverse(Retained(cb))

\* a time step can offer candidates of which one is turned away on add,
\* another is accepted on add and dropped by the prune step, and the order
\* of the adds decides which of them reach the staging vector
C17_Witness ==
  /\ Begun
  /\ \E in \in FrameInputs :
        LET off == Offered(in)
            cb == AddAll(CandidatesReset, off, opt.beamThreshold)
            rev == AddAll(CandidatesReset, Reverse(off), opt.beamThreshold)
        IN /\ cb.best > kNegativeInfinity
           /\ Len(cb.cands) < Len(off)
           /\ Len(Retained(cb)) < Len(cb.cands)
           /\ Len(rev.cands) # Len(cb.cands)

\* the candidates of kept with the key of m
Run(kept, m) == SelectSeq(kept, LAMBDA c : SameKey(c, m))

\* the log-add of the scores of a run, taken from the highest down
RECURSIVE LogAddFrom(_, _)
LogAddFrom(acc, scores) ==
  IF scores = <<>> THEN acc
  ELSE LogAddFrom(LogAdd(acc, Head(scores).score), Tail(scores))

RunLogAdd(run) ==
  LET sorted == SortByScore(run, <<>>)
  IN LogAddFrom(Head(sorted).score, Tail(sorted))

\* merged is kept with each run of equal keys collapsed as C18 says
MergedByRuns(kept, merged) ==
  /\ \A c \in 1 .. Len(kept) : \E m \in 1 .. Len(merged) : SameKey(kept[c], merged[m])
  /\ \A m, n \in 1 .. Len(merged) : SameKey(merged[m], merged[n]) => m = n
  /\ \A m \in 1 .. Len(merged) :
        LET run == Run(kept, merged[m])
        IN /\ run # <<>>
           /\ \E c \in 1 .. Len(run) :
                 /\ run[c].score = MaxScore(run)
                 /\ run[c].parent = merged[m].parent
                 /\ run[c].word = merged[m].word
           /\ merged[m].score =
                 IF opt.logAdd THEN RunLogAdd(run) ELSE MaxScore(run)

\* C18: the merge of a time step leaves one state for each key among the
\* candidates kept by the prune step; its parent and word are those of a
\* highest-scoring candidate of that key; its score is the maximum of the
\* run with log_add off and the log-add of the whole run with log_add on.
C18_MergeKeepsBestOfRun ==
  Begun =>
    \A in \in FrameInputs :
       LET kept == Retained(AddAll(CandidatesReset, Offered(in), opt.beamThreshold))
       IN MergedByRuns(kept, MergeCandidates(kept, opt.logAdd))

\* with log_add on, a time step merges a run of two candidates that differ
\* in score and in parent into a state that scores above both
C18_Witness ==
  /\ Begun
  /\ opt.logAdd
  /\ \E in \in FrameInputs :
        LET kept == Retained(AddAll(CandidatesReset, Offered(in), opt.beamThreshold))
            merged == MergeCandidates(kept, opt.logAdd)
        IN \E m \in 1 .. Len(merged) :
              LET run == Run(kept, merged[m])
              IN /\ Len(run) >= 2
                 /\ run[1].score # run[2].score
                 /\ run[1].parent # run[2].parent
                 /\ merged[m].score > MaxScore(run)

\* decodeStep over the frames of first and then decodeStep over those of
\* second, from the current state
InTwoCalls(first, second) ==
  LET one == DecodeStepOn(hyp, candidatesBestScore, CurrentFrame, nDecodedFrames,
                          first)
  IN [after |-> DecodeStepOn(one.hyp, one.best, CurrentFrame + Len(first),
                             nDecodedFrames + Len(first), second),
      nDecodedFrames |-> (nDecodedFrames + Len(first)) + Len(second)]

\* one decodeStep over the frames of first followed by those of second
InOneCall(first, second) ==
  [after |-> DecodeStepOn(hyp, candidatesBestScore, CurrentFrame, nDecodedFrames,
                          first \o second),
   nDecodedFrames |-> nDecodedFrames + Len(first \o second)]

\* C19: from any state, decode_step over T1 frames followed by decode_step
\* over T2 more frames leaves the buffer, the running best and
\* n_decoded_frames as one decode_step over the T1 + T2 frames does
\* (n_pruned_frames is touched by neither), for every call of T1 + T2 <= MaxT
\* frames.
C19_ChunkingIrrelevant ==
  Begun =>
    \A T1, T2 \in 1 .. MaxT :
       (T1 + T2 <= MaxT /\ nDecodedFrames + T1 + T2 <= MaxFrames) =>
         \A first \in [1 .. T1 -> FrameInputs], second \in [1 .. T2 -> FrameInputs] :
            InTwoCalls(first, second) = InOneCall(first, second)

\* under ASG, after one decoded frame and a prune, two more frames leave
\* two states in the last frame: the second call starts past the
\* first frame of the utterance and on a rebased buffer
C19_Witness ==
  /\ Begun
  /\ IsASG
  /\ nPrunedFrames >= 1
  /\ nDecodedFrames + 2 <= MaxFrames
  /\ NHypothesis >= 2
  /\ \E in1, in2 \in FrameInputs :
        Len(Frame(InTwoCalls(<<in1>>, <<in2>>).after.hyp, CurrentFrame + 2)) >= 2

\* the inputs of a time step whose emissions are all finite
FiniteInputs ==
  {in \in FrameInputs : \A n \in 1 .. N : in.row[n] > kNegativeInfinity}

\* from a live beam, a time step on finite emissions and decodeEnd each
\* write a frame with at least one state
LiveBeamSurvivesFrame ==
  (Begun /\ NHypothesis >= 1) =>
    /\ \A in \in FiniteInputs : NextBeam(in) # <<>>
    /\ Frame(DecodeEndOn(hyp, CurrentFrame).hyp, CurrentFrame + 1) # <<>>

\* decodeBegin starts with a live beam; decodeEnd, prune and a decodeStep
\* without frames keep a live beam alive
LiveBeamKept ==
  /\ lastOp' = "decodeBegin" => NHypothesis' = 1
  /\ (Begun /\ NHypothesis >= 1 /\ (lastOp' # "decodeStep" \/ EmptyDecodeStep))
       => NHypothesis' >= 1

\* C20: with finite emissions, transitions and LM scores and a positive
\* beam threshold the beam never dies: decode_begin leaves one state, and
\* from a beam with at least one state every frame that decode_step writes
\* on finite emissions and the frame that decode_end writes hold at least one
\* state; prune does not empty the beam either.
C20_BeamNeverDies == []LiveBeamSurvivesFrame /\ [][LiveBeamKept]_vars

\* under ASG, past the first frame, a time step on finite emissions offers
\* for some state of the beam the stay candidate only, and that candidate
\* is stored
C20_Witness ==
  /\ Begun
  /\ IsASG
  /\ nDecodedFrames >= 1
  /\ \E in \in FiniteInputs, i \in Slots(CurrentFrame) :
        LET from(c) == c.parent = ParentRef(CurrentFrame, i)
        IN /\ Len(SelectSeq(Offered(in), from)) = 1
           /\ Len(SelectSeq(NextBeam(in), from)) = 1

====
